---------------------------- MODULE Spec2Model ----------------------------
(***************************************************************************)
(* A model of src/features.py: the feature extractors of the ants bot      *)
(* (MovingTowardsFeatures, QualifyingFeatures, CompositingFeatures), the   *)
(* dict codec of FeatureExtractor.__init__ / to_dict, and the A* path      *)
(* cache and search counter that the extractors share through the          *)
(* per-turn state object.                                                  *)
(*                                                                         *)
(* Python values are modelled as follows.  A bool is the integer it is in  *)
(* Python (True == 1, False == 0), so that the product i*j of              *)
(* CompositingFeatures.extract is the product of the code.  A list is a    *)
(* sequence; list index i of the code is sequence index i+1.  A dict with  *)
(* string keys is a record or a function on strings.  None is a record of   *)
(* its own class.  A raised exception is a record with an "exception"      *)
(* field that is returned in place of the value and propagated by every    *)
(* caller.                                                                 *)
(***************************************************************************)
EXTENDS Integers, Sequences, FiniteSets, TLC

VARIABLES
    extractor,       \* the extractor object the program constructed, or None
    descriptor,      \* the dict last produced by to_dict or read as configuration
    decoded,         \* the object FeatureExtractor(descriptor) returned, or None
    reencoded,       \* decoded.to_dict(), or None
    error,           \* the exception the last decode raised, or None
    world,           \* the turn's world: enemy and friendly ants, ant count, visit counts
    a_star_counter,  \* state.a_star_counter
    paths,           \* state.paths: location -> the path cached for it ([] when none)
    searches,        \* calls of aStarSearch.get_path made so far in this turn
    calls,           \* extract calls made so far in this turn
    last             \* the last extract call: its inputs, its result, its searches

codec == <<extractor, descriptor, decoded, reencoded, error>>
cycle == <<world, a_star_counter, paths, searches, calls, last>>
vars == <<extractor, descriptor, decoded, reencoded, error,
          world, a_star_counter, paths, searches, calls, last>>

None == [class |-> "NoneType"]

(***************************************************************************)
(* Bounds of the model.                                                    *)
(***************************************************************************)
MaxComposites == 2      \* Compositing nodes in one extractor or descriptor
MaxFeatures == 1000     \* feature names of one constructed extractor
MapCols == 3            \* columns of the one-row map (a torus, as every ants map)
MaxNearby == 2          \* entries of one nearby-food list
MaxCalls == 2           \* extract calls of one turn under Spec
MaxEvalFeatures == 160  \* feature names of an extractor that is evaluated

(***************************************************************************)
(* Constants of the code.                                                  *)
(***************************************************************************)
MaxSearches == 60       \* moving_towards_on_astar: state.a_star_counter <= 60
nearby_distance == 5    \* QualifyingFeatures.nearby_distance

(***************************************************************************)
(* Class attributes and the feature names each class declares.             *)
(***************************************************************************)
MovingTowardsType == "MovingTowards"
QualifyingType == "Qualifying"
CompositingType == "Compositing"

MovingTowardsNames ==
    << "Moving Towards Closest Enemy",
       "Moving Towards Closest Food",
       "Moving Towards Friendly",
       "Moving Towards Closest Food on AStar path",
       "Moving Towards Least Visited" >>

QualifyingNames ==
    << "Enemy Nearby", "Friend Nearby", "Friend close", "More than 100 ants",
       "Enemy is nearer to nearest food",
       "No food in Hill", ">=1 food in Hill", ">=2 food in Hill",
       ">=3 food in Hill", ">=4 food in Hill", ">=5 food in Hill",
       ">=7 food in Hill", ">=8 food in Hill", ">=9 food in Hill",
       ">=10 food in Hill",
       "No ant defending", ">=1 ant defending", ">=2 ant defending",
       ">=3 ant defending", ">=4 ant defending", ">=5 ant defending" >>

(***************************************************************************)
(* Exceptions.                                                             *)
(***************************************************************************)
Raise(cls, msg) == [exception |-> cls, message |-> msg]

IsException(r) == "exception" \in DOMAIN r

(***************************************************************************)
(* FeatureExtractor: accessors.                                            *)
(***************************************************************************)
num_features(self) == Len(self.feature_names)

feature_name(self, fid) == self.feature_names[fid + 1]

\* The loop at the end of __init__: feature_id[name] = fid for fid = 0, 1, ...
\* in list order, so a name that occurs twice keeps the later index.
assign_feature_ids(feature_names) ==
    LET n == Len(feature_names)
    IN  [name \in {feature_names[i] : i \in 1..n} |->
            (CHOOSE i \in 1..n :
                /\ feature_names[i] = name
                /\ \A j \in (i+1)..n : feature_names[j] # name) - 1]

\* The two nested loops of compute_feature_names: the base names, then for
\* base_id (outer) and qual_id (inner) the joined name.
compute_feature_names(base_f, qual_f) ==
    LET n == num_features(base_f)
        m == num_features(qual_f)
    IN  base_f.feature_names \o
        [k \in 1..(n * m) |->
            feature_name(base_f, (k - 1) \div m) \o " AND " \o
            feature_name(qual_f, (k - 1) % m)]

(***************************************************************************)
(* FeatureExtractor.__init__(input_dict): dispatch on the type tag, the    *)
(* class-specific init_from_dict, then the name -> id loop.                *)
(***************************************************************************)
RECURSIVE FeatureExtractor(_)

init_from_dict(cls, input_dict) ==
    IF cls = MovingTowardsType THEN
        [class |-> cls, feature_names |-> MovingTowardsNames]
    ELSE IF cls = QualifyingType THEN
        [class |-> cls, feature_names |-> QualifyingNames]
    ELSE
        LET base_f == FeatureExtractor(input_dict.base_f) IN
        IF IsException(base_f) THEN base_f
        ELSE
            LET qual_f == FeatureExtractor(input_dict.qual_f) IN
            IF IsException(qual_f) THEN qual_f
            ELSE [class |-> cls,
                  base_f |-> base_f,
                  qual_f |-> qual_f,
                  feature_names |-> compute_feature_names(base_f, qual_f)]

\* Variant: an unrecognized type tag falls back to MovingTowards.
FeatureExtractor_defaulting(input_dict) ==
    LET new_type == IF input_dict._type \in {MovingTowardsType, QualifyingType,
                                              CompositingType}
                    THEN input_dict._type ELSE MovingTowardsType
        self == init_from_dict(new_type, input_dict)
    IN  IF IsException(self) THEN self
        ELSE [f \in DOMAIN self \cup {"feature_id"} |->
                IF f = "feature_id" THEN assign_feature_ids(self.feature_names)
                ELSE self[f]]

FeatureExtractor(input_dict) ==
    LET new_type == input_dict._type IN
    IF new_type \notin {MovingTowardsType, QualifyingType, CompositingType} THEN
        Raise("Exception", "Invalid feature class %s" \o new_type)
    ELSE
        LET self == init_from_dict(new_type, input_dict) IN
        IF IsException(self) THEN self
        ELSE [f \in DOMAIN self \cup {"feature_id"} |->
                IF f = "feature_id" THEN assign_feature_ids(self.feature_names)
                ELSE self[f]]

(***************************************************************************)
(* to_dict: FeatureExtractor.to_dict and the CompositingFeatures override. *)
(***************************************************************************)
\* Variant: the Compositing override writes the children under each other's key.
RECURSIVE to_dict_swapped(_)
to_dict_swapped(self) ==
    IF self.class = CompositingType THEN
        [_type |-> self.class,
         base_f |-> to_dict_swapped(self.qual_f),
         qual_f |-> to_dict_swapped(self.base_f)]
    ELSE [_type |-> self.class]

RECURSIVE to_dict(_)
to_dict(self) ==
    IF self.class = CompositingType THEN
        [_type |-> self.class,
         base_f |-> to_dict(self.base_f),
         qual_f |-> to_dict(self.qual_f)]
    ELSE [_type |-> self.class]

(***************************************************************************)
(* The constructors of the three classes.                                  *)
(***************************************************************************)
MovingTowardsFeatures == FeatureExtractor([_type |-> MovingTowardsType])

QualifyingFeatures == FeatureExtractor([_type |-> QualifyingType])

CompositingFeatures(base_f, qual_f) ==
    FeatureExtractor([_type |-> CompositingType,
                      base_f |-> to_dict(base_f),
                      qual_f |-> to_dict(qual_f)])

(***************************************************************************)
(* The descriptors and extractors the model draws from.                    *)
(***************************************************************************)
LeafTags == {MovingTowardsType, QualifyingType, "Bogus"}

RECURSIVE DescriptorsOfDepth(_)
DescriptorsOfDepth(k) ==
    IF k = 0 THEN {[_type |-> t] : t \in LeafTags}
    ELSE LET S == DescriptorsOfDepth(k - 1)
         IN  S \cup {[_type |-> CompositingType, base_f |-> b, qual_f |-> q] :
                        b \in S, q \in S}

RECURSIVE NumComposites(_)
NumComposites(d) ==
    IF d._type = CompositingType
    THEN 1 + NumComposites(d.base_f) + NumComposites(d.qual_f)
    ELSE 0

\* The number of names the decoded extractor would have (1 for a bad leaf).
RECURSIVE DescriptorSize(_)
DescriptorSize(d) ==
    IF d._type = CompositingType
    THEN DescriptorSize(d.base_f) * (1 + DescriptorSize(d.qual_f))
    ELSE IF d._type = MovingTowardsType THEN Len(MovingTowardsNames)
    ELSE IF d._type = QualifyingType THEN Len(QualifyingNames)
    ELSE 1

RECURSIVE WellFormed(_)
WellFormed(d) ==
    IF d._type = CompositingType
    THEN WellFormed(d.base_f) /\ WellFormed(d.qual_f)
    ELSE d._type \in {MovingTowardsType, QualifyingType}

ConfigDescriptors ==
    {d \in DescriptorsOfDepth(MaxComposites) :
        NumComposites(d) <= MaxComposites /\ DescriptorSize(d) <= MaxFeatures}

\* The extractor objects the constructors can build within the bounds.
Extractors == {FeatureExtractor(d) : d \in {c \in ConfigDescriptors : WellFormed(c)}}

(***************************************************************************)
(* The world of one turn (worldstate.py): a one-row torus map, the         *)
(* directions, the distance, the neighbour of a cell, the sorted list of   *)
(* points, and the entities and visit counts the bot's state looks up.     *)
(***************************************************************************)
MapRows == 1

Cells == {<<r, c>> : r \in 0..(MapRows - 1), c \in 0..(MapCols - 1)}

AIM == [n |-> <<-1, 0>>, e |-> <<0, 1>>, s |-> <<1, 0>>, w |-> <<0, -1>>,
        halt |-> <<0, 0>>]

Abs(x) == IF x < 0 THEN -x ELSE x

Min(a, b) == IF a <= b THEN a ELSE b

manhattan_distance(loc1, loc2) ==
    LET d_row == Abs(loc1[1] - loc2[1])
        d_col == Abs(loc1[2] - loc2[2])
    IN  Min(d_row, MapRows - d_row) + Min(d_col, MapCols - d_col)

next_position(loc, action) ==
    << (loc[1] + AIM[action][1]) % MapRows, (loc[2] + AIM[action][2]) % MapCols >>

\* (distance, point) pairs in ascending order, as Python orders tuples.
PairBefore(p, q) ==
    \/ p[1] < q[1]
    \/ p[1] = q[1] /\ p[2][1] < q[2][1]
    \/ p[1] = q[1] /\ p[2][1] = q[2][1] /\ p[2][2] < q[2][2]

sort_by_distance(loc, points) ==
    SortSeq([i \in 1..Len(points) |-> <<manhattan_distance(loc, points[i]), points[i]>>],
            PairBefore)

lookup_nearby_enemy(w, loc) == w.enemy

lookup_nearby_friendly(w, loc) == SelectSeq(w.friendly, LAMBDA c : c # loc)

get_next_visited(w, loc, direction) == w.visited[next_position(loc, direction)]

\* The worlds of the model: an empty one, and one with an enemy ant, two
\* friendly ants, more than 100 ants in all and one cell visited before.
WorldOf(busy) ==
    [enemy    |-> IF busy THEN << <<0, MapCols - 1>> >> ELSE << >>,
     friendly |-> IF busy THEN << <<0, 0>>, <<0, 1>> >> ELSE << >>,
     ants     |-> IF busy THEN 101 ELSE 2,
     visited  |-> [c \in Cells |-> IF busy /\ c = <<0, 1>> THEN 1 ELSE 0]]

Worlds == {WorldOf(busy) : busy \in BOOLEAN}

\* The cells an ant that is evaluated stands on.
AntLocs == {<<0, 0>>, <<0, 1>>}

\* What state.lookup_nearby_food(loc) can return: up to MaxNearby food cells,
\* listed from west to east.
NearbyLists(loc) ==
    LET Food == Cells \ {loc}
    IN  {points \in UNION {[1..n -> Food] : n \in 0..MaxNearby} :
            \A i, j \in 1..Len(points) : i < j => points[i][2] < points[j][2]}

(***************************************************************************)
(* aStarSearch(world).get_path(loc, target) (antpathsearch.py): None, or a *)
(* path of cells from loc to target.  Which of the two ways round the map  *)
(* is open depends on the water, which is an input of each call.           *)
(***************************************************************************)
Routes == {"none", "east", "west"}

RECURSIVE Walk(_, _, _)
Walk(from, to, direction) ==
    IF from = to THEN <<to>>
    ELSE <<from>> \o Walk(next_position(from, direction), to, direction)

get_path(route, loc, target) ==
    IF route = "none" THEN None
    ELSE Walk(loc, target, IF route = "east" THEN "e" ELSE "w")

(***************************************************************************)
(* The extractors.  A call takes the context ctx (the counter and cache of *)
(* the state object, and the count of get_path calls) and an environment   *)
(* env = [world, food, route], and returns the feature list f with the     *)
(* context it leaves behind.                                               *)
(***************************************************************************)
True == 1
False == 0
PyBool(b) == IF b THEN True ELSE False

\* MovingTowardsFeatures.find_closest and QualifyingFeatures.find_closest
find_closest(loc, points) ==
    IF Len(points) = 1 THEN points[1]
    ELSE LET locs == sort_by_distance(loc, points)
         IN  IF Len(locs) > 0 THEN locs[1][2] ELSE None

moving_towards(loc1, loc2, target) ==
    PyBool(manhattan_distance(loc1, target) - manhattan_distance(loc2, target) > 0)

\* Variant: a cached path is used whatever target it leads to.
moving_towards_on_astar_any_target(ctx, env, loc, new_loc, target) ==
    IF Len(ctx.paths[loc]) # 0 THEN
        [value |-> PyBool(ctx.paths[loc][1] = new_loc), ctx |-> ctx]
    ELSE IF ctx.a_star_counter <= MaxSearches THEN
        LET path == get_path(env.route, loc, target)
            searched == [ctx EXCEPT !.a_star_counter = @ + 1, !.searches = @ + 1]
        IN  IF path # None THEN
                LET cached == [searched EXCEPT !.paths[loc] = Tail(path)]
                IN  [value |-> PyBool(cached.paths[loc][1] = new_loc), ctx |-> cached]
            ELSE [value |-> False, ctx |-> searched]
    ELSE [value |-> False, ctx |-> ctx]

\* Variant: a failed search is remembered, as a path that stays at loc.
moving_towards_on_astar_failure_cached(ctx, env, loc, new_loc, target) ==
    IF Len(ctx.paths[loc]) # 0 THEN
        [value |-> PyBool(/\ ctx.paths[loc][1] = new_loc
                          /\ ctx.paths[loc][Len(ctx.paths[loc])] = target),
         ctx |-> ctx]
    ELSE IF ctx.a_star_counter <= MaxSearches THEN
        LET path == get_path(env.route, loc, target)
            searched == [ctx EXCEPT !.a_star_counter = @ + 1, !.searches = @ + 1]
        IN  IF path # None THEN
                LET cached == [searched EXCEPT !.paths[loc] = Tail(path)]
                IN  [value |-> PyBool(cached.paths[loc][1] = new_loc), ctx |-> cached]
            ELSE [value |-> False, ctx |-> [searched EXCEPT !.paths[loc] = <<loc>>]]
    ELSE [value |-> False, ctx |-> ctx]

\* Variant: a cached path that leads to another target is searched anew.
moving_towards_on_astar_refreshing(ctx, env, loc, new_loc, target) ==
    IF /\ Len(ctx.paths[loc]) # 0
       /\ ctx.paths[loc][Len(ctx.paths[loc])] = target THEN
        [value |-> PyBool(ctx.paths[loc][1] = new_loc), ctx |-> ctx]
    ELSE IF ctx.a_star_counter <= MaxSearches THEN
        LET path == get_path(env.route, loc, target)
            searched == [ctx EXCEPT !.a_star_counter = @ + 1, !.searches = @ + 1]
        IN  IF path # None THEN
                LET cached == [searched EXCEPT !.paths[loc] = Tail(path)]
                IN  [value |-> PyBool(cached.paths[loc][1] = new_loc), ctx |-> cached]
            ELSE [value |-> False, ctx |-> searched]
    ELSE [value |-> False, ctx |-> ctx]

moving_towards_on_astar(ctx, env, loc, new_loc, target) ==
    IF Len(ctx.paths[loc]) # 0 THEN
        [value |-> PyBool(/\ ctx.paths[loc][1] = new_loc
                          /\ ctx.paths[loc][Len(ctx.paths[loc])] = target),
         ctx |-> ctx]
    ELSE IF ctx.a_star_counter <= MaxSearches THEN
        LET path == get_path(env.route, loc, target)
            searched == [ctx EXCEPT !.a_star_counter = @ + 1, !.searches = @ + 1]
        IN  IF path # None THEN
                LET cached == [searched EXCEPT !.paths[loc] = Tail(path)]
                IN  [value |-> PyBool(cached.paths[loc][1] = new_loc), ctx |-> cached]
            ELSE [value |-> False, ctx |-> searched]
    ELSE [value |-> False, ctx |-> ctx]

least_visited(w, loc, action) ==
    LET other_dirs == (DOMAIN AIM \ {action}) \ {"halt"}
    IN  PyBool(\A direction \in other_dirs :
                  ~(get_next_visited(w, loc, action) > get_next_visited(w, loc, direction)))

MovingTowards_extract(ctx, env, loc, action) ==
    LET food_loc == find_closest(loc, env.food)
        enemy_loc == find_closest(loc, lookup_nearby_enemy(env.world, loc))
        friend_loc == find_closest(loc, lookup_nearby_friendly(env.world, loc))
        next_loc == next_position(loc, action)
        astar == IF food_loc = None THEN [value |-> False, ctx |-> ctx]
                 ELSE moving_towards_on_astar(ctx, env, loc, next_loc, food_loc)
    IN  [f |-> << IF enemy_loc = None THEN False
                  ELSE moving_towards(loc, next_loc, enemy_loc),
                  IF food_loc = None THEN False
                  ELSE moving_towards(loc, next_loc, food_loc),
                  IF friend_loc = None THEN False
                  ELSE moving_towards(loc, next_loc, friend_loc),
                  astar.value,
                  least_visited(env.world, loc, action) >>,
         ctx |-> astar.ctx]

nearby(antpos, target) == PyBool(manhattan_distance(antpos, target) <= nearby_distance)

Qualifying_extract(ctx, env, loc, action) ==
    LET enemy_loc == find_closest(loc, lookup_nearby_enemy(env.world, loc))
        friend_loc == find_closest(loc, lookup_nearby_friendly(env.world, loc))
        food_loc == find_closest(loc, env.food)
    IN  [f |-> << IF enemy_loc = None THEN False ELSE nearby(loc, enemy_loc),
                  IF friend_loc = None THEN False ELSE nearby(loc, friend_loc),
                  IF friend_loc = None THEN False
                  ELSE PyBool(manhattan_distance(loc, friend_loc) <= 2),
                  IF env.world.ants > 100 THEN True ELSE False,
                  IF enemy_loc = None \/ food_loc = None THEN False
                  ELSE moving_towards(loc, enemy_loc, food_loc) >>,
         ctx |-> ctx]

RECURSIVE extract(_, _, _, _, _)
RECURSIVE products(_, _, _, _, _, _, _)

\* The list comprehension [i*j for i in base_f.extract(..) for j in
\* qual_f.extract(..)]: qual_f.extract is called once for every i.
products(qual_f, base, k, ctx, env, loc, action) ==
    IF k > Len(base) THEN [f |-> << >>, ctx |-> ctx]
    ELSE LET qual == extract(qual_f, ctx, env, loc, action)
             rest == products(qual_f, base, k + 1, qual.ctx, env, loc, action)
         IN  [f |-> [j \in 1..Len(qual.f) |-> base[k] * qual.f[j]] \o rest.f,
              ctx |-> rest.ctx]

Compositing_extract(self, ctx, env, loc, action) ==
    LET first == extract(self.base_f, ctx, env, loc, action)
        second == extract(self.base_f, first.ctx, env, loc, action)
        prod == products(self.qual_f, second.f, 1, second.ctx, env, loc, action)
    IN  [f |-> first.f \o prod.f, ctx |-> prod.ctx]

extract(self, ctx, env, loc, action) ==
    IF self.class = MovingTowardsType THEN MovingTowards_extract(ctx, env, loc, action)
    ELSE IF self.class = QualifyingType THEN Qualifying_extract(ctx, env, loc, action)
    ELSE Compositing_extract(self, ctx, env, loc, action)

(***************************************************************************)
(* Construction and the codec.                                             *)
(***************************************************************************)
NoPaths == [c \in Cells |-> << >>]

Init ==
    /\ extractor = None
    /\ descriptor = None
    /\ decoded = None
    /\ reencoded = None
    /\ error = None
    /\ world = None
    /\ a_star_counter = 0
    /\ paths = NoPaths
    /\ searches = 0
    /\ calls = 0
    /\ last = None

\* The program builds its extractor once, from a constructor or (LoadDescriptor,
\* Decode) from a stored descriptor.
Fresh == extractor = None /\ descriptor = None

ConstructMovingTowards ==
    /\ Fresh
    /\ extractor' = MovingTowardsFeatures
    /\ descriptor' = None /\ decoded' = None /\ reencoded' = None /\ error' = None
    /\ UNCHANGED cycle

ConstructQualifying ==
    /\ Fresh
    /\ extractor' = QualifyingFeatures
    /\ descriptor' = None /\ decoded' = None /\ reencoded' = None /\ error' = None
    /\ UNCHANGED cycle

ConstructCompositing ==
    \E base_f \in Extractors, qual_f \in Extractors :
        /\ Fresh
        /\ [_type |-> CompositingType,
            base_f |-> to_dict(base_f),
            qual_f |-> to_dict(qual_f)] \in ConfigDescriptors
        /\ extractor' = CompositingFeatures(base_f, qual_f)
        /\ descriptor' = None /\ decoded' = None /\ reencoded' = None /\ error' = None
        /\ UNCHANGED cycle

\* descriptor = extractor.to_dict()
Encode ==
    /\ extractor # None
    /\ descriptor = None
    /\ descriptor' = to_dict(extractor)
    /\ decoded' = None /\ reencoded' = None /\ error' = None
    /\ UNCHANGED extractor
    /\ UNCHANGED cycle

\* A descriptor read from a configuration file instead.
LoadDescriptor ==
    \E d \in ConfigDescriptors :
        /\ Fresh
        /\ descriptor' = d
        /\ extractor' = None
        /\ decoded' = None /\ reencoded' = None /\ error' = None
        /\ UNCHANGED cycle

\* decoded = FeatureExtractor(descriptor): when __init__ raises, the
\* assignment does not happen and the caller holds the exception only.
Decode ==
    /\ descriptor # None
    /\ decoded = None /\ error = None
    /\ LET r == FeatureExtractor(descriptor) IN
        IF IsException(r)
        THEN error' = r /\ decoded' = decoded
        ELSE error' = None /\ decoded' = r
    /\ UNCHANGED <<extractor, descriptor, reencoded>>
    /\ UNCHANGED cycle

\* reencoded = decoded.to_dict()
Reencode ==
    /\ decoded # None
    /\ reencoded = None
    /\ reencoded' = to_dict(decoded)
    /\ UNCHANGED <<extractor, descriptor, decoded, error>>
    /\ UNCHANGED cycle

NextCodec ==
    \/ ConstructMovingTowards
    \/ ConstructQualifying
    \/ ConstructCompositing
    \/ Encode
    \/ LoadDescriptor
    \/ Decode
    \/ Reencode

CodecSpec == Init /\ [][NextCodec]_vars

(***************************************************************************)
(* One turn: the decision loop holds one extractor and one fresh state     *)
(* object, calls extract for one ant location and action after the other,  *)
(* and takes each feature list before it makes the next call.              *)
(***************************************************************************)
\* The extractors that are evaluated.
EvalExtractors == {x \in Extractors : num_features(x) <= MaxEvalFeatures}

InitTurn(extractors) ==
    /\ extractor \in extractors
    /\ descriptor = None
    /\ decoded = None
    /\ reencoded = None
    /\ error = None
    /\ world \in Worlds
    /\ a_star_counter = 0
    /\ paths = NoPaths
    /\ searches = 0
    /\ calls = 0
    /\ last = None

\* last.f = extractor.extract(world, state, loc, action)
Call(loc, action, food, route) ==
    LET ctx == [a_star_counter |-> a_star_counter, paths |-> paths, searches |-> 0]
        env == [world |-> world, food |-> food, route |-> route]
    IN  \E r \in {extract(extractor, ctx, env, loc, action)} :
            /\ a_star_counter' = r.ctx.a_star_counter
            /\ paths' = r.ctx.paths
            /\ searches' = searches + r.ctx.searches
            /\ last' = [loc |-> loc, action |-> action, food |-> food, route |-> route,
                        f |-> r.f, searched |-> r.ctx.searches]
            /\ UNCHANGED <<world, codec>>

\* Any extractor, up to MaxCalls calls in the turn.
Evaluate ==
    /\ last = None
    /\ calls < MaxCalls
    /\ \E loc \in AntLocs, action \in DOMAIN AIM, route \in Routes :
        \E food \in NearbyLists(loc) : Call(loc, action, food, route)
    /\ calls' = calls + 1

\* The caller takes the feature list.
Return ==
    /\ last # None
    /\ last' = None
    /\ UNCHANGED <<codec, world, a_star_counter, paths, searches, calls>>

Next == Evaluate \/ Return

Spec == InitTurn(EvalExtractors) /\ [][Next]_vars

(***************************************************************************)
(* A whole turn of the MovingTowards extractor: any number of calls.       *)
(***************************************************************************)
EvaluateMoving ==
    /\ last = None
    /\ \E loc \in AntLocs, action \in DOMAIN AIM, route \in Routes :
        \E food \in NearbyLists(loc) : Call(loc, action, food, route)
    /\ UNCHANGED calls

NextBudget == EvaluateMoving \/ Return

BudgetSpec == InitTurn({MovingTowardsFeatures}) /\ [][NextBudget]_vars

(***************************************************************************)
(* Properties.  In a state where last is set, an extract call has just     *)
(* returned and the state object is as that call left it.                  *)
(***************************************************************************)
LastTarget == find_closest(last.loc, last.food)

LastNextLoc == next_position(last.loc, last.action)

LastEnv == [world |-> world, food |-> last.food, route |-> last.route]

HereCtx == [a_star_counter |-> a_star_counter, paths |-> paths, searches |-> 0]

\* The index of the A* path feature in the MovingTowards feature list.
AStarFeature == 4

\* C1: the list a Compositing extractor returns holds at [0, n) the values of
\* a base evaluation on the same inputs and at n + base_id*m + qual_id the
\* value base[base_id] AND qual[qual_id], with n and m the num_features() of
\* the base and the qualifier child.
C1_CompositeLayout ==
    (last # None /\ extractor.class = CompositingType) =>
        LET n == num_features(extractor.base_f)
            m == num_features(extractor.qual_f)
            base == extract(extractor.base_f, HereCtx, LastEnv, last.loc, last.action).f
            qual == extract(extractor.qual_f, HereCtx, LastEnv, last.loc, last.action).f
        IN  /\ \A i \in 0..(n - 1) :
                /\ i + 1 \in DOMAIN last.f
                /\ i + 1 \in DOMAIN base
                /\ last.f[i + 1] = base[i + 1]
            /\ \A base_id \in 0..(n - 1), qual_id \in 0..(m - 1) :
                /\ n + base_id * m + qual_id + 1 \in DOMAIN last.f
                /\ base_id + 1 \in DOMAIN base
                /\ qual_id + 1 \in DOMAIN qual
                /\ last.f[n + base_id * m + qual_id + 1]
                      = PyBool(base[base_id + 1] = True /\ qual[qual_id + 1] = True)

\* C2: the list every extract call returns is num_features() long.
C2_VectorLength ==
    last # None => Len(last.f) = num_features(extractor)

\* C3: in one turn, from a counter of 0, get_path is called at most 60 times.
C3_SearchBudget ==
    searches <= MaxSearches

\* C4: once the counter has reached 60, a call for a location without a
\* cached path returns false for the path feature, calls get_path not at
\* all, and leaves the counter and the cache as they are.
C4_ExhaustedBudget ==
    [][ ( /\ last = None /\ last' # None
          /\ a_star_counter >= MaxSearches
          /\ find_closest(last'.loc, last'.food) # None
          /\ paths[last'.loc] = << >> )
        => ( /\ last'.f[AStarFeature] = False
             /\ last'.searched = 0
             /\ searches' = searches
             /\ a_star_counter' = a_star_counter
             /\ paths' = paths ) ]_vars

\* C5: decoding the descriptor of an extractor succeeds and gives an
\* extractor of the same class with the same feature names, whose own
\* descriptor is the descriptor decoded.
C5_RoundTrip ==
    extractor # None =>
        /\ error = None
        /\ decoded # None =>
            /\ decoded.class = extractor.class
            /\ decoded.feature_names = extractor.feature_names
        /\ reencoded # None => reencoded = descriptor

C5_Witness ==
    /\ extractor # None
    /\ extractor.class = CompositingType
    /\ extractor.base_f.class = CompositingType
    /\ decoded # None
    /\ reencoded # None

\* C6: decoding a descriptor with an unrecognized type tag, at the top or in
\* a child of a Compositing descriptor, raises and yields no extractor.
C6_UnknownTag ==
    ( /\ descriptor # None
      /\ ~WellFormed(descriptor)
      /\ (error # None \/ decoded # None) )
    => ( /\ IsException(error)
         /\ decoded = None
         /\ reencoded = None
         /\ extractor = None )

C6_Witness ==
    /\ descriptor # None
    /\ descriptor._type = CompositingType
    /\ WellFormed(descriptor.base_f)
    /\ descriptor.qual_f._type = CompositingType
    /\ ~WellFormed(descriptor.qual_f)
    /\ IsException(error)

\* C7: the feature names of an extractor are pairwise distinct, and
\* feature_id maps the name at every index i to i.
C7_UniqueNames ==
    extractor # None =>
        LET n == num_features(extractor) IN
        /\ \A i, j \in 0..(n - 1) :
              feature_name(extractor, i) = feature_name(extractor, j) => i = j
        /\ \A i \in 0..(n - 1) :
              extractor.feature_id[feature_name(extractor, i)] = i

\* C8: when a MovingTowards call with a food target ends with a path cached
\* for its location, the path feature is true exactly if the first step of
\* that path is the next location and its final step is the target.
C8_PathFeature ==
    ( /\ last # None
      /\ extractor.class = MovingTowardsType
      /\ LastTarget # None
      /\ paths[last.loc] # << >> )
    => ( last.f[AStarFeature] = True
         <=> ( /\ paths[last.loc][1] = LastNextLoc
               /\ paths[last.loc][Len(paths[last.loc])] = LastTarget ) )

\* A call answered from a path cached for another food target, whose first
\* step is the next location.
C8_Witness ==
    /\ last # None
    /\ extractor.class = MovingTowardsType
    /\ LastTarget # None
    /\ paths[last.loc] # << >>
    /\ last.searched = 0
    /\ paths[last.loc][1] = LastNextLoc
    /\ paths[last.loc][Len(paths[last.loc])] # LastTarget
    /\ last.f[AStarFeature] = False

\* C9: a MovingTowards call in which get_path finds no path returns false
\* for the path feature, leaves the cache entry of the location empty and
\* adds one to the counter; and every call for a location whose entry is
\* empty calls get_path (again) as long as the counter is below 60.
C9_NoPathRetry ==
    [][ ( /\ last = None /\ last' # None
          /\ extractor.class = MovingTowardsType
          /\ find_closest(last'.loc, last'.food) # None
          /\ paths[last'.loc] = << >> )
        => ( /\ a_star_counter < MaxSearches => last'.searched = 1
             /\ (last'.searched = 1 /\ last'.route = "none")
                  => ( /\ last'.f[AStarFeature] = False
                       /\ paths'[last'.loc] = << >>
                       /\ a_star_counter' = a_star_counter + 1 ) ) ]_vars

\* Three searches have failed on two locations, the last of them just now:
\* one location was searched again after get_path had found no path for it.
C9_Witness ==
    /\ last # None
    /\ extractor.class = MovingTowardsType
    /\ last.route = "none"
    /\ last.searched = 1
    /\ last.f[AStarFeature] = False
    /\ paths = NoPaths
    /\ a_star_counter = 3
    /\ searches = 3

\* C10: once a location has a path cached, no call of any extractor changes
\* that entry, and a call for that location calls get_path not at all and
\* leaves the counter as it is.
C10_CachedEntryFrame ==
    [][ \A l \in Cells :
          paths[l] # << >> =>
            /\ paths'[l] = paths[l]
            /\ (last = None /\ last' # None /\ last'.loc = l)
                 => ( /\ last'.searched = 0
                      /\ searches' = searches
                      /\ a_star_counter' = a_star_counter ) ]_vars

\* A second call of a Compositing extractor for a location with a cached path.
C10_Witness ==
    /\ last # None
    /\ extractor.class = CompositingType
    /\ calls = 2
    /\ LastTarget # None
    /\ paths[last.loc] # << >>
    /\ last.searched = 0
    /\ a_star_counter = 1

=============================================================================
